---- MODULE Spec2Model ----
(***************************************************************************)
(* Price tracker (src/app.py): the /track request handler, its extraction  *)
(* and normalisation functions, and the price-history store.               *)
(*                                                                         *)
(* Text is modelled by TLA+ strings, handled character by character with   *)
(* Head, Tail, SubSeq, Len and \o.  An optional value (a Python name that  *)
(* is not bound yet, or None) is the empty tuple; a bound one is <<v>>.    *)
(***************************************************************************)
EXTENDS Integers, Sequences, FiniteSets, TLC

None == <<>>
Some(v) == <<v>>
Val(o) == o[1]

(***************************************************************************)
(* Characters and string helpers.                                          *)
(***************************************************************************)
DigitChars == "0123456789"
UpperChars == "ABCDEFGHIJKLMNOPQRSTUVWXYZ"
LowerChars == "abcdefghijklmnopqrstuvwxyz"
Whitespace == {" "}

RECURSIVE CharsOf(_)
CharsOf(s) == IF s = "" THEN {} ELSE {Head(s)} \cup CharsOf(Tail(s))

Digits == CharsOf(DigitChars)
DigitsAndPoint == Digits \cup {"."}
Uppers == CharsOf(UpperChars)

\* 1-based position of character c in string s, 0 when absent: str.find + 1.
RECURSIVE Find(_, _)
Find(s, c) ==
    IF s = "" THEN 0
    ELSE IF Head(s) = c THEN 1
    ELSE LET r == Find(Tail(s), c) IN IF r = 0 THEN 0 ELSE r + 1

\* needle in haystack (Python's substring test).
Contains(haystack, needle) ==
    \E i \in 1..(Len(haystack) - Len(needle) + 1) :
        SubSeq(haystack, i, i + Len(needle) - 1) = needle

\* The characters of s that are in keep, in order.
RECURSIVE Keep(_, _)
Keep(s, keep) ==
    IF s = "" THEN ""
    ELSE (IF Head(s) \in keep THEN Head(s) ELSE "") \o Keep(Tail(s), keep)

\* The characters of s that are not in drop, in order.
RECURSIVE Drop(_, _)
Drop(s, drop) ==
    IF s = "" THEN ""
    ELSE (IF Head(s) \in drop THEN "" ELSE Head(s)) \o Drop(Tail(s), drop)

RECURSIVE LStrip(_)
LStrip(s) == IF s # "" /\ Head(s) \in Whitespace THEN LStrip(Tail(s)) ELSE s

RECURSIVE RStrip(_)
RStrip(s) ==
    IF s # "" /\ SubSeq(s, Len(s), Len(s)) \in Whitespace
    THEN RStrip(SubSeq(s, 1, Len(s) - 1))
    ELSE s

\* str.strip()
Strip(s) == RStrip(LStrip(s))

\* str.lower() on ASCII letters.
RECURSIVE Lower(_)
Lower(s) ==
    IF s = "" THEN ""
    ELSE LET c == Head(s)
             i == Find(UpperChars, c)
         IN  (IF c \in Uppers THEN SubSeq(LowerChars, i, i) ELSE c) \o Lower(Tail(s))

\* The longest prefix of s made of characters in set.
RECURSIVE TakeWhile(_, _)
TakeWhile(s, set) ==
    IF s # "" /\ Head(s) \in set THEN Head(s) \o TakeWhile(Tail(s), set) ELSE ""

\* The prefix of s before the first character in stops (all of s if none).
RECURSIVE Until(_, _)
Until(s, stops) ==
    IF s = "" \/ Head(s) \in stops THEN "" ELSE Head(s) \o Until(Tail(s), stops)

\* s without its first n characters.
From(s, n) == SubSeq(s, n + 1, Len(s))

(***************************************************************************)
(* Numbers.  A float is the exact decimal num / 10^exp, normalised (no     *)
(* trailing zero in the fraction), so equal values are equal records.      *)
(* Rounding, overflow to inf and underflow of float() are outside it.      *)
(***************************************************************************)
RECURSIVE Pow10(_)
Pow10(n) == IF n = 0 THEN 1 ELSE 10 * Pow10(n - 1)

RECURSIVE Normalise(_)
Normalise(v) ==
    IF v.exp > 0 /\ v.num % 10 = 0
    THEN Normalise([num |-> v.num \div 10, exp |-> v.exp - 1])
    ELSE v

Zero == [num |-> 0, exp |-> 0]

\* The value of a string of decimal digits, read left to right.
RECURSIVE DigitsValue(_, _)
DigitsValue(s, acc) ==
    IF s = "" THEN acc
    ELSE DigitsValue(Tail(s), 10 * acc + (Find(DigitChars, Head(s)) - 1))

\* Python's float(s) on a string of digits and points: digits with at most
\* one point and at least one digit, anything else raises ValueError.
PyFloat(s) ==
    LET whole == TakeWhile(s, Digits)
        rest == From(s, Len(whole))
        frac == IF rest # "" /\ Head(rest) = "." THEN TakeWhile(Tail(rest), Digits) ELSE ""
        left == IF rest # "" /\ Head(rest) = "." THEN From(rest, 1 + Len(frac)) ELSE rest
    IN  IF left = "" /\ (whole # "" \/ frac # "")
        THEN [exc |-> "",
              val |-> Normalise([num |-> DigitsValue(whole \o frac, 0), exp |-> Len(frac)])]
        ELSE [exc |-> "ValueError", val |-> Zero]

\* parse_price without its try/except: a ValueError escapes.
ParsePrice_NoExcept(price_text) ==
    PyFloat(Keep(Drop(price_text, {","}), DigitsAndPoint))

\* parse_price: the outcome of the call, exc = "" when it returns val.
ParsePrice(price_text) ==
    LET cleaned == Keep(Drop(price_text, {","}), DigitsAndPoint)
        r == PyFloat(cleaned)
    IN  IF r.exc = "ValueError" THEN [exc |-> "", val |-> Zero] ELSE r

(***************************************************************************)
(* URLs: urlparse(url).hostname.  The scheme is what precedes the first    *)
(* ":" when it is made of scheme characters; the netloc follows "//" up to *)
(* the next "/", "?" or "#"; the hostname is the netloc after its last "@" *)
(* and before its ":", lower-cased, None when empty.                       *)
(***************************************************************************)
Letters == CharsOf(LowerChars \o UpperChars)
SchemeChars == CharsOf(LowerChars \o UpperChars \o DigitChars \o "+-.")

UrlAfterScheme(url) ==
    LET i == Find(url, ":")
    IN  IF i > 1 /\ Head(url) \in Letters
             /\ TakeWhile(url, SchemeChars) = SubSeq(url, 1, i - 1)
        THEN From(url, i)
        ELSE url

UrlNetloc(url) ==
    LET rest == UrlAfterScheme(url)
    IN  IF Len(rest) >= 2 /\ SubSeq(rest, 1, 2) = "//"
        THEN Until(From(rest, 2), {"/", "?", "#"})
        ELSE ""

\* s.rpartition(c)[2]
RECURSIVE AfterLast(_, _)
AfterLast(s, c) ==
    LET i == Find(s, c) IN IF i = 0 THEN s ELSE AfterLast(From(s, i), c)

UrlHostname(url) ==
    LET host == Until(AfterLast(UrlNetloc(url), "@"), {":"})
    IN  IF host = "" THEN None ELSE Some(Lower(host))

\* urlparse(product_url).hostname or ""
Hostname(product_url) ==
    LET h == UrlHostname(product_url) IN IF h = None THEN "" ELSE Val(h)

SUPPORTED_DOMAINS == <<"flipkart.com", "amazon.", "amzn.">>
PLACEHOLDER_IMAGE == "https://via.placeholder.com/300?text=Image+Not+Found"

\* A gate that lets every hostname through.
IsSupported_Any(hostname) == TRUE

\* any(domain in hostname for domain in SUPPORTED_DOMAINS)
IsSupported(hostname) ==
    \E i \in 1..Len(SUPPORTED_DOMAINS) : Contains(hostname, SUPPORTED_DOMAINS[i])

(***************************************************************************)
(* Documents.  A parsed page is known by what each selector the code uses  *)
(* finds in it: None, or the first matching node with its content and src  *)
(* attributes (None when the node lacks the attribute) and its text.       *)
(***************************************************************************)
FlipkartSelectors ==
    {"meta og:title", "span.B_NuCI",
     "div._30jeq3._16Jk6d", "div.Nx9bqj.CxhGGd", "div._25b18c ._30jeq3",
     "meta og:image", "img._396cs4._2amPTt._3qGmMb"}

AmazonSelectors ==
    {"#productTitle", "span#title",
     "#corePriceDisplay_desktop_feature_div span.a-offscreen",
     ".a-price .a-offscreen", "span.a-price-whole",
     "#landingImage", "meta og:image"}

Selectors == FlipkartSelectors \cup AmazonSelectors

Node(content, src, text) == [content |-> content, src |-> src, text |-> text]

EmptyDoc == [s \in Selectors |-> None]

\* soup.select_one(selector) / soup.find("meta", {"property": ...})
Select(soup, selector) == soup[selector]

\* a or b, on tags: a Tag is always truthy, None is not.
Or(a, b) == IF a # None THEN a ELSE b

HasAttr(tag, attr) ==
    CASE attr = "content" -> Val(tag).content # None
      [] attr = "src" -> Val(tag).src # None

\* tag.get_text(strip=True)
GetText(tag) == Strip(Val(tag).text)

extract_flipkart_details(soup) ==
    LET title_tag == Or(Select(soup, "meta og:title"), Select(soup, "span.B_NuCI"))
        price_tag == Or(Select(soup, "div._30jeq3._16Jk6d"),
                        Or(Select(soup, "div.Nx9bqj.CxhGGd"),
                           Select(soup, "div._25b18c ._30jeq3")))
        image_tag == Or(Select(soup, "meta og:image"),
                        Select(soup, "img._396cs4._2amPTt._3qGmMb"))
        title == IF title_tag # None /\ HasAttr(title_tag, "content")
                 THEN Strip(Val(Val(title_tag).content))
                 ELSE IF title_tag # None THEN GetText(title_tag) ELSE "Not found"
        price == IF price_tag # None THEN GetText(price_tag) ELSE "0"
        image_url == IF image_tag # None /\ HasAttr(image_tag, "content")
                     THEN Val(Val(image_tag).content)
                     ELSE IF image_tag # None /\ HasAttr(image_tag, "src")
                     THEN Val(Val(image_tag).src)
                     ELSE PLACEHOLDER_IMAGE
    IN  <<title, price, image_url>>

extract_amazon_details(soup) ==
    LET title_tag == Or(Select(soup, "#productTitle"), Select(soup, "span#title"))
        price_tag == Or(Select(soup, "#corePriceDisplay_desktop_feature_div span.a-offscreen"),
                        Or(Select(soup, ".a-price .a-offscreen"),
                           Select(soup, "span.a-price-whole")))
        image_tag == Or(Select(soup, "#landingImage"), Select(soup, "meta og:image"))
        title == IF title_tag # None THEN GetText(title_tag) ELSE "Not found"
        price == IF price_tag # None THEN GetText(price_tag) ELSE "0"
        image_url == IF image_tag # None /\ HasAttr(image_tag, "src")
                     THEN Val(Val(image_tag).src)
                     ELSE IF image_tag # None /\ HasAttr(image_tag, "content")
                     THEN Val(Val(image_tag).content)
                     ELSE PLACEHOLDER_IMAGE
    IN  <<title, price, image_url>>

\* extract_product_details testing the Amazon substrings before Flipkart's.
extract_product_details_AmazonFirst(product_url, soup) ==
    LET hostname == Hostname(product_url)
    IN  IF Contains(hostname, "amazon.") \/ Contains(hostname, "amzn.")
        THEN extract_amazon_details(soup)
        ELSE IF Contains(hostname, "flipkart.com")
        THEN extract_flipkart_details(soup)
        ELSE <<"Unsupported website", "0", PLACEHOLDER_IMAGE>>

extract_product_details(product_url, soup) ==
    LET hostname == Hostname(product_url)
    IN  IF Contains(hostname, "flipkart.com")
        THEN extract_flipkart_details(soup)
        ELSE IF Contains(hostname, "amazon.") \/ Contains(hostname, "amzn.")
        THEN extract_amazon_details(soup)
        ELSE <<"Unsupported website", "0", PLACEHOLDER_IMAGE>>

(***************************************************************************)
(* State.                                                                  *)
(*   store        the price_history table, in rowid order                  *)
(*   clock        datetime.utcnow(), in half minutes since midnight UTC    *)
(*   pc[w]        where worker w is in track(); "idle" between requests    *)
(*   the locals of track() for each worker, None until bound; row is the   *)
(*   PriceHistory object of the request                                    *)
(*   response[w]  the page rendered for the request                        *)
(*   call         a direct call of one of the functions: its name, its     *)
(*                arguments and the outcomes of its successive runs        *)
(***************************************************************************)
VARIABLES store, clock, pc, product_url, fetched, soup, title_text, price_text,
          image_url, price_value, row, history, date_labels, price_data,
          response, call

locals == <<product_url, fetched, soup, title_text, price_text, image_url,
            price_value, row, history, date_labels, price_data, response>>
vars == <<store, clock, pc, locals, call>>

Worker == {"w1", "w2"}

MAX_HISTORY_POINTS == 7

Positive(v) == v.num > 0

(***************************************************************************)
(* build_history                                                           *)
(***************************************************************************)
RECURSIVE Reverse(_)
Reverse(seq) == IF seq = <<>> THEN <<>> ELSE Append(Reverse(Tail(seq)), Head(seq))

\* The first limit rows of table among ids, latest date first.  Rows of equal
\* date come in rowid order, as the default SQLite engine returns them.
RECURSIVE OrderByDateDesc(_, _, _)
OrderByDateDesc(table, ids, limit) ==
    IF limit = 0 \/ ids = {} THEN <<>>
    ELSE LET first == CHOOSE i \in ids : \A j \in ids :
                          \/ table[i].date > table[j].date
                          \/ table[i].date = table[j].date /\ i <= j
         IN  <<table[first]>> \o OrderByDateDesc(table, ids \ {first}, limit - 1)

\* The query ordering by date ascending: the oldest rows, not the latest.
QueryRecent_Oldest(table, url) ==
    LET ids == {i \in 1..Len(table) : table[i].url = url}
        asc == Reverse(OrderByDateDesc(table, ids, Cardinality(ids)))
    IN  Reverse(SubSeq(asc, 1, IF Len(asc) < MAX_HISTORY_POINTS THEN Len(asc)
                                                              ELSE MAX_HISTORY_POINTS))

\* The query without its filter on the URL.
QueryRecent_AnyUrl(table, url) ==
    OrderByDateDesc(table, 1..Len(table), MAX_HISTORY_POINTS)

\* PriceHistory.query.filter_by(url=...).order_by(date.desc()).limit(...).all()
QueryRecent(table, url) ==
    OrderByDateDesc(table, {i \in 1..Len(table) : table[i].url = url}, MAX_HISTORY_POINTS)

\* item.date in Asia/Kolkata (UTC+5:30) as "%Y-%m-%d %H:%M": the day, hour and
\* minute of the timestamp moved by 330 minutes, seconds dropped.
DateLabel(date) ==
    LET minutes == (date \div 2) + 330
    IN  <<minutes \div 1440, (minutes % 1440) \div 60, minutes % 60>>

build_history(table, url) ==
    LET hist == Reverse(QueryRecent(table, url))
    IN  [history |-> hist,
         date_labels |-> [i \in 1..Len(hist) |-> DateLabel(hist[i].date)],
         price_data |-> [i \in 1..Len(hist) |-> hist[i].price]]

(***************************************************************************)
(* track(), one action per section between its accesses to the network,    *)
(* the clock and the database.                                             *)
(***************************************************************************)
ErrorPage(message) == [page |-> "index.html", error |-> message, price |-> ""]

NoUrlMessage == "Please provide a product URL."
UnsupportedMessage == "Currently we can track Amazon or Flipkart product links."
FetchMessage == "Could not fetch the product page."

\* Requests that may still insert a row.
InFlight == {w \in Worker : pc[w] \in {"fetch", "extract", "flush", "commit"}}

Unbound == [w \in Worker |-> None]

\* Lines 150-159: read the form, refuse an empty URL or an unsupported host.
Receive(w, forms, cap) ==
    /\ pc[w] = "idle"
    /\ Len(store) + Cardinality(InFlight) < cap
    /\ \E form \in forms :
        LET url == Strip(form)
        IN  /\ product_url' = [product_url EXCEPT ![w] = Some(url)]
            /\ IF url = ""
               THEN /\ response' = [response EXCEPT ![w] = Some(ErrorPage(NoUrlMessage))]
                    /\ pc' = [pc EXCEPT ![w] = "done"]
               ELSE IF ~IsSupported(Hostname(url))
               THEN /\ response' = [response EXCEPT ![w] = Some(ErrorPage(UnsupportedMessage))]
                    /\ pc' = [pc EXCEPT ![w] = "done"]
               ELSE /\ response' = response
                    /\ pc' = [pc EXCEPT ![w] = "fetch"]
    /\ UNCHANGED <<store, clock, fetched, soup, title_text, price_text, image_url,
                   price_value, row, history, date_labels, price_data, call>>

\* Lines 161-167: fetch_product_page returns a document or raises.
Fetch(w, docs) ==
    /\ pc[w] = "fetch"
    /\ fetched' = [fetched EXCEPT ![w] = TRUE]
    /\ \/ /\ response' = [response EXCEPT ![w] = Some(ErrorPage(FetchMessage))]
          /\ pc' = [pc EXCEPT ![w] = "done"]
          /\ soup' = soup
       \/ /\ \E doc \in docs : soup' = [soup EXCEPT ![w] = Some(doc)]
          /\ pc' = [pc EXCEPT ![w] = "extract"]
          /\ response' = response
    /\ UNCHANGED <<store, clock, product_url, title_text, price_text, image_url,
                   price_value, row, history, date_labels, price_data, call>>

\* A gate that also lets a price of zero through.
ShouldPersist_NonNegative(value, title) == value.num >= 0 /\ title # "Unsupported website"

\* Line 178.
ShouldPersist(value, title) == Positive(value) /\ title # "Unsupported website"

\* Lines 169-179: extract, refuse an "Unsupported website" title, normalise
\* the price, and create the row when it is to be persisted.
Extract(w) ==
    /\ pc[w] = "extract"
    /\ LET details == extract_product_details(Val(product_url[w]), Val(soup[w]))
           parsed == ParsePrice(details[2])
       IN  /\ title_text' = [title_text EXCEPT ![w] = Some(details[1])]
           /\ price_text' = [price_text EXCEPT ![w] = Some(details[2])]
           /\ image_url' = [image_url EXCEPT ![w] = Some(details[3])]
           /\ IF details[1] = "Unsupported website"
              THEN /\ response' = [response EXCEPT ![w] = Some(ErrorPage(UnsupportedMessage))]
                   /\ pc' = [pc EXCEPT ![w] = "done"]
                   /\ UNCHANGED <<price_value, row>>
              ELSE IF parsed.exc # ""
              THEN /\ response' = [response EXCEPT ![w] =
                                      Some([page |-> "500", error |-> parsed.exc, price |-> ""])]
                   /\ pc' = [pc EXCEPT ![w] = "done"]
                   /\ UNCHANGED <<price_value, row>>
              ELSE /\ price_value' = [price_value EXCEPT ![w] = Some(parsed.val)]
                   /\ response' = response
                   /\ IF ShouldPersist(parsed.val, details[1])
                      THEN /\ row' = [row EXCEPT ![w] =
                                         Some([id |-> None, url |-> Val(product_url[w]),
                                               title |-> details[1], price |-> parsed.val,
                                               date |-> None])]
                           /\ pc' = [pc EXCEPT ![w] = "flush"]
                      ELSE /\ row' = row
                           /\ pc' = [pc EXCEPT ![w] = "history"]
    /\ UNCHANGED <<store, clock, product_url, fetched, soup, history, date_labels,
                   price_data, call>>

\* Line 180, first half: the flush fills the date column from datetime.utcnow,
\* which has moved by one of the steps in advance since its last reading.
Flush(w, advance) ==
    /\ pc[w] = "flush"
    /\ \E step \in advance :
        /\ clock' = clock + step
        /\ row' = [row EXCEPT ![w] = Some([Val(@) EXCEPT !.date = Some(clock + step)])]
    /\ pc' = [pc EXCEPT ![w] = "commit"]
    /\ UNCHANGED <<store, product_url, fetched, soup, title_text, price_text, image_url,
                   price_value, history, date_labels, price_data, response, call>>

\* The insert replacing the latest row of the same URL instead of appending.
Commit_Upsert(w) ==
    /\ pc[w] = "commit"
    /\ LET same == {i \in 1..Len(store) : store[i].url = Val(row[w]).url}
           id == IF same = {} THEN Len(store) + 1
                 ELSE CHOOSE i \in same : \A j \in same : j <= i
           new == [id |-> id, url |-> Val(row[w]).url, title |-> Val(row[w]).title,
                   price |-> Val(row[w]).price, date |-> Val(Val(row[w]).date)]
       IN  /\ store' = IF same = {} THEN Append(store, new) ELSE [store EXCEPT ![id] = new]
           /\ row' = [row EXCEPT ![w] = Some([Val(@) EXCEPT !.id = Some(id)])]
    /\ pc' = [pc EXCEPT ![w] = "history"]
    /\ UNCHANGED <<clock, product_url, fetched, soup, title_text, price_text, image_url,
                   price_value, history, date_labels, price_data, response, call>>

\* Line 180, second half: INSERT and COMMIT; the row gets the next rowid.
Commit(w) ==
    /\ pc[w] = "commit"
    /\ LET id == Len(store) + 1
       IN  /\ store' = Append(store, [id |-> id, url |-> Val(row[w]).url,
                                      title |-> Val(row[w]).title,
                                      price |-> Val(row[w]).price,
                                      date |-> Val(Val(row[w]).date)])
           /\ row' = [row EXCEPT ![w] = Some([Val(@) EXCEPT !.id = Some(id)])]
    /\ pc' = [pc EXCEPT ![w] = "history"]
    /\ UNCHANGED <<clock, product_url, fetched, soup, title_text, price_text, image_url,
                   price_value, history, date_labels, price_data, response, call>>

\* Line 182.
BuildHistory(w) ==
    /\ pc[w] = "history"
    /\ LET built == build_history(store, Val(product_url[w]))
       IN  /\ history' = [history EXCEPT ![w] = Some(built.history)]
           /\ date_labels' = [date_labels EXCEPT ![w] = Some(built.date_labels)]
           /\ price_data' = [price_data EXCEPT ![w] = Some(built.price_data)]
    /\ pc' = [pc EXCEPT ![w] = "render"]
    /\ UNCHANGED <<store, clock, product_url, fetched, soup, title_text, price_text,
                   image_url, price_value, row, response, call>>

\* Line 184.
DisplayPrice(text) == IF Contains(text, "₹") THEN text ELSE "₹" \o text

\* Lines 184-195.
Render(w) ==
    /\ pc[w] = "render"
    /\ response' = [response EXCEPT ![w] =
                       Some([page |-> "result.html", error |-> "",
                             price |-> DisplayPrice(Val(price_text[w]))])]
    /\ pc' = [pc EXCEPT ![w] = "done"]
    /\ UNCHANGED <<store, clock, product_url, fetched, soup, title_text, price_text,
                   image_url, price_value, row, history, date_labels, price_data,
                   call>>

\* The response is sent and the worker is free for the next request.
Return(w) ==
    /\ pc[w] = "done"
    /\ pc' = [pc EXCEPT ![w] = "idle"]
    /\ product_url' = [product_url EXCEPT ![w] = None]
    /\ fetched' = [fetched EXCEPT ![w] = FALSE]
    /\ soup' = [soup EXCEPT ![w] = None]
    /\ title_text' = [title_text EXCEPT ![w] = None]
    /\ price_text' = [price_text EXCEPT ![w] = None]
    /\ image_url' = [image_url EXCEPT ![w] = None]
    /\ price_value' = [price_value EXCEPT ![w] = None]
    /\ row' = [row EXCEPT ![w] = None]
    /\ history' = [history EXCEPT ![w] = None]
    /\ date_labels' = [date_labels EXCEPT ![w] = None]
    /\ price_data' = [price_data EXCEPT ![w] = None]
    /\ response' = [response EXCEPT ![w] = None]
    /\ UNCHANGED <<store, clock, call>>

NoCall == [fn |-> "", args |-> <<>>, results |-> <<>>]

WorkersIdle ==
    /\ pc = [w \in Worker |-> "idle"]
    /\ product_url = Unbound
    /\ fetched = [w \in Worker |-> FALSE]
    /\ soup = Unbound
    /\ title_text = Unbound
    /\ price_text = Unbound
    /\ image_url = Unbound
    /\ price_value = Unbound
    /\ row = Unbound
    /\ history = Unbound
    /\ date_labels = Unbound
    /\ price_data = Unbound
    /\ response = Unbound

\* The server starts with an empty table and idle workers, at 18:29:00 UTC
\* (23:59 in Asia/Kolkata).
Init ==
    /\ store = <<>>
    /\ clock = 2218
    /\ WorkersIdle
    /\ call = NoCall

(***************************************************************************)
(* Inputs: the URLs submitted and the pages the sites serve.               *)
(***************************************************************************)
FlipkartUrl == "https://www.flipkart.com/p/abc"
AmazonUrl == "https://www.amazon.com/dp/B0"

\* A Flipkart product page: structured title and image, primary price node.
DocPhone ==
    ("meta og:title" :> Some(Node(Some(" Phone "), None, "")))
    @@ ("div._30jeq3._16Jk6d" :> Some(Node(None, None, "₹1,299")))
    @@ ("meta og:image" :> Some(Node(Some("https://img/phone"), None, "")))
    @@ EmptyDoc

\* An Amazon product page priced in dollars.
DocKettle ==
    ("#productTitle" :> Some(Node(None, None, " Kettle ")))
    @@ (".a-price .a-offscreen" :> Some(Node(None, None, "$49.99")))
    @@ ("#landingImage" :> Some(Node(None, Some("https://img/kettle"), "")))
    @@ EmptyDoc

\* A page whose title is the text the handler reserves for unsupported sites.
DocBlocked ==
    ("meta og:title" :> Some(Node(Some(" Unsupported website "), None, "")))
    @@ ("#productTitle" :> Some(Node(None, None, "Unsupported website")))
    @@ EmptyDoc

Forms == {"", "https://example.com/x", " " \o FlipkartUrl \o " ", AmazonUrl}
Docs == {DocPhone, DocKettle, DocBlocked, EmptyDoc}
MaxStore == 2

Next ==
    \E w \in Worker :
        \/ Receive(w, Forms, MaxStore)
        \/ Fetch(w, Docs)
        \/ Extract(w)
        \/ Flush(w, {0, 1})
        \/ Commit(w)
        \/ BuildHistory(w)
        \/ Render(w)
        \/ Return(w)

Spec == Init /\ [][Next]_vars

\* Many requests for few URLs, so that a history outgrows its window.
RaceForms == {FlipkartUrl}
RaceDocs == {DocPhone}
MaxRows == 8

NextRace ==
    \E w \in Worker :
        \/ Receive(w, RaceForms, MaxRows)
        \/ Fetch(w, RaceDocs)
        \/ Extract(w)
        \/ Flush(w, {1})
        \/ Commit(w)
        \/ BuildHistory(w)
        \/ Render(w)
        \/ Return(w)

SpecRace == Init /\ [][NextRace]_vars

(***************************************************************************)
(* Direct calls of parse_price.                                            *)
(***************************************************************************)
RECURSIVE StringsOfLength(_, _)
StringsOfLength(alphabet, n) ==
    IF n = 0 THEN {""}
    ELSE {c \o t : c \in alphabet, t \in StringsOfLength(alphabet, n - 1)}

PriceAlphabet == {"0", "5", ".", ",", "₹", "x"}
MaxLen == 4
PriceTexts == UNION {StringsOfLength(PriceAlphabet, n) : n \in 0..MaxLen}

CallParsePrice ==
    /\ call.fn = "parse_price"
    /\ call.results = <<>>
    /\ call' = [call EXCEPT !.results = <<ParsePrice(call.args[1])>>]
    /\ UNCHANGED <<store, clock, pc, locals>>

InitPrice ==
    /\ store = <<>>
    /\ clock = 2218
    /\ WorkersIdle
    /\ call \in {[fn |-> "parse_price", args |-> <<text>>, results |-> <<>>] :
                    text \in PriceTexts}

SpecPrice == InitPrice /\ [][CallParsePrice]_vars

(***************************************************************************)
(* Direct calls of extract_product_details.                                *)
(***************************************************************************)
ExtractUrls ==
    {"https://www.amazon.in/dp/XYZ", "https://www.flipkart.com/p/abc",
     "https://example.com/x", "amazon.in/dp", "https://flipkart.com@example.com/",
     "HTTPS://WWW.AMAZON.IN:443/x", "https://amzn.to/x", "",
     "https://amazon.flipkart.com/", "http://example.com/amazon.in",
     "https://www.flipkart.co/x", "https://amazon/x"}

\* What a selector finds: nothing, or a node with or without its attributes.
\* The values name the selector and the attribute they come from.
Shapes == {"missing", "bare", "content", "src", "both"}
TextShapes == {"missing", "bare"}

Found(selector, shape) ==
    IF shape = "missing" THEN None
    ELSE Some(Node(IF shape \in {"content", "both"} THEN Some(" content of " \o selector) ELSE None,
                   IF shape \in {"src", "both"} THEN Some("src of " \o selector) ELSE None,
                   " text of " \o selector \o " "))

FlipkartDocs ==
    {   ("meta og:title" :> Found("meta og:title", t1))
     @@ ("span.B_NuCI" :> Found("span.B_NuCI", t2))
     @@ ("div._30jeq3._16Jk6d" :> Found("div._30jeq3._16Jk6d", p1))
     @@ ("div.Nx9bqj.CxhGGd" :> Found("div.Nx9bqj.CxhGGd", p2))
     @@ ("div._25b18c ._30jeq3" :> Found("div._25b18c ._30jeq3", p3))
     @@ ("meta og:image" :> Found("meta og:image", i1))
     @@ ("img._396cs4._2amPTt._3qGmMb" :> Found("img._396cs4._2amPTt._3qGmMb", i2))
     @@ EmptyDoc :
        t1 \in {"missing", "bare", "content"}, t2 \in {"missing", "bare", "content"},
        p1 \in TextShapes, p2 \in TextShapes, p3 \in TextShapes,
        i1 \in Shapes, i2 \in Shapes}

AmazonDocs ==
    {   ("#productTitle" :> Found("#productTitle", t1))
     @@ ("span#title" :> Found("span#title", t2))
     @@ ("#corePriceDisplay_desktop_feature_div span.a-offscreen" :>
            Found("#corePriceDisplay_desktop_feature_div span.a-offscreen", p1))
     @@ (".a-price .a-offscreen" :> Found(".a-price .a-offscreen", p2))
     @@ ("span.a-price-whole" :> Found("span.a-price-whole", p3))
     @@ ("#landingImage" :> Found("#landingImage", i1))
     @@ ("meta og:image" :> Found("meta og:image", i2))
     @@ EmptyDoc :
        t1 \in TextShapes, t2 \in TextShapes,
        p1 \in TextShapes, p2 \in TextShapes, p3 \in TextShapes,
        i1 \in Shapes, i2 \in Shapes}

ExtractDocs == FlipkartDocs \cup AmazonDocs

CallExtract ==
    /\ call.fn = "extract_product_details"
    /\ call.results = <<>>
    /\ call' = [call EXCEPT !.results =
                   <<extract_product_details(call.args[1], call.args[2])>>]
    /\ UNCHANGED <<store, clock, pc, locals>>

InitExtract ==
    /\ store = <<>>
    /\ clock = 2218
    /\ WorkersIdle
    /\ call \in {[fn |-> "extract_product_details", args |-> <<url, doc>>, results |-> <<>>] :
                    url \in ExtractUrls, doc \in ExtractDocs}

SpecExtract == InitExtract /\ [][CallExtract]_vars

(***************************************************************************)
(* Direct calls of build_history, twice in a row, on stored tables.        *)
(***************************************************************************)
MaxTable == 10

\* The table of n rows where every m-th row is of the Amazon URL and the
\* dates step by k around a cycle: in rowid order for k = 1, out of order or
\* tied for other k.  Prices count up from 10.
Table(n, m, k) ==
    [i \in 1..n |->
        [id |-> i,
         url |-> IF i % m = 0 THEN AmazonUrl ELSE FlipkartUrl,
         title |-> "Phone",
         price |-> [num |-> 9 + i, exp |-> 0],
         date |-> 2218 + ((i * k) % (MaxTable + 2))]]

Tables == {Table(n, m, k) : n \in 0..MaxTable, m \in 2..(MaxTable + 1), k \in 1..(MaxTable + 1)}

\* build_history deleting the rows its window leaves out.
CallBuildHistory_Prune ==
    /\ call.fn = "build_history"
    /\ Len(call.results) < 2
    /\ LET built == build_history(store, call.args[1])
           kept == {built.history[i].id : i \in 1..Len(built.history)}
       IN  /\ call' = [call EXCEPT !.results = Append(@, built)]
           /\ store' = SelectSeq(store, LAMBDA r : r.url # call.args[1] \/ r.id \in kept)
    /\ UNCHANGED <<clock, pc, locals>>

CallBuildHistory ==
    /\ call.fn = "build_history"
    /\ Len(call.results) < 2
    /\ call' = [call EXCEPT !.results = Append(@, build_history(store, call.args[1]))]
    /\ UNCHANGED <<store, clock, pc, locals>>

InitHistory ==
    /\ store \in Tables
    /\ clock = 2218 + MaxTable + 2
    /\ WorkersIdle
    /\ call \in {[fn |-> "build_history", args |-> <<url>>, results |-> <<>>] :
                    url \in {FlipkartUrl, AmazonUrl, "https://amzn.to/x"}}

SpecHistory == InitHistory /\ [][CallBuildHistory]_vars

(***************************************************************************)
(* Properties.                                                             *)
(***************************************************************************)
Min(a, b) == IF a < b THEN a ELSE b
Ids(rows) == {rows[i].id : i \in 1..Len(rows)}
Finished(w) == pc[w] = "done"
Aborted(w) == Finished(w) /\ Val(response[w]).page = "index.html"
Rendered(w) == Finished(w) /\ Val(response[w]).page = "result.html"

\* C1: every observation in the store has a price above zero, and so has
\* every observation a history returns, whatever requests ran and however
\* they interleaved.
C1_StoredPricesPositive ==
    /\ \A i \in 1..Len(store) : store[i].price.num > 0
    /\ \A w \in Worker :
          history[w] # None =>
              \A i \in 1..Len(Val(history[w])) : Val(history[w])[i].price.num > 0

\* A request whose price normalised to zero has rendered its result beside a
\* non-empty history of its URL.
C1_Witness ==
    \E w \in Worker :
        /\ Rendered(w)
        /\ price_value[w] = Some(Zero)
        /\ Val(history[w]) # <<>>

\* C4: a request that aborts has run none of the later steps and has created
\* no row; one refused for its hostname (which contains none of the supported
\* domain substrings) has not fetched; one whose fetch failed has extracted
\* nothing.
C4_AbortSkipsLaterSteps ==
    \A w \in Worker :
        Aborted(w) =>
            /\ price_value[w] = None /\ row[w] = None /\ history[w] = None
            /\ date_labels[w] = None /\ price_data[w] = None
            /\ Val(response[w]).error # ""
            /\ (\A i \in 1..Len(SUPPORTED_DOMAINS) :
                    ~Contains(Hostname(Val(product_url[w])), SUPPORTED_DOMAINS[i]))
               => /\ ~fetched[w] /\ soup[w] = None /\ title_text[w] = None
                  /\ Val(response[w]).error \in {NoUrlMessage, UnsupportedMessage}
            /\ Val(response[w]).error = FetchMessage
               => /\ fetched[w] /\ soup[w] = None
                  /\ title_text[w] = None /\ price_text[w] = None /\ image_url[w] = None

\* One request was refused for its hostname while another's fetch failed.
C4_Witness ==
    \E w, v \in Worker :
        /\ Aborted(w) /\ Val(product_url[w]) = "https://example.com/x"
        /\ Val(response[w]).error = UnsupportedMessage
        /\ Aborted(v) /\ Val(response[v]).error = FetchMessage
        /\ store # <<>>

\* C10: the table only grows, by one row at a time, and only by the insert of
\* a request whose normalised price is above zero, which appends its own row
\* once; a request that ends has appended exactly one row if its price is
\* above zero and none otherwise.
C10_AppendOnly ==
    [][/\ \/ store' = store
          \/ \E w \in Worker :
                /\ pc[w] = "commit" /\ pc'[w] = "history"
                /\ Positive(Val(price_value[w]))
                /\ Val(row[w]).id = None
                /\ Val(row'[w]).id = Some(Len(store) + 1)
                /\ Len(store') = Len(store) + 1
                /\ SubSeq(store', 1, Len(store)) = store
                /\ store'[Len(store')].url = Val(product_url[w])
                /\ store'[Len(store')].price = Val(price_value[w])
       /\ \A w \in Worker :
             (pc[w] # "done" /\ pc'[w] = "done") =>
                 IF price_value'[w] # None /\ Positive(Val(price_value'[w]))
                 THEN /\ row'[w] # None
                      /\ Val(row'[w]).id # None
                      /\ Val(Val(row'[w]).id) \in 1..Len(store')
                      /\ store'[Val(Val(row'[w]).id)].url = Val(product_url'[w])
                      /\ \A v \in Worker \ {w} :
                            row'[v] # None => Val(row'[v]).id # Val(row'[w]).id
                 ELSE row'[w] = None]_vars

\* Two requests for the same URL have both ended, each with a row of its own.
C10_Witness ==
    \E w, v \in Worker :
        /\ w # v /\ Finished(w) /\ Finished(v)
        /\ product_url[w] = product_url[v]
        /\ row[w] # None /\ row[v] # None
        /\ Val(row[w]).id # Val(row[v]).id
        /\ Len(store) = 2 /\ store[1].url = store[2].url /\ store[1].date = store[2].date

\* C9 as stated: the price shown is the raw price text, with a currency
\* symbol put before it only when the text holds none.
CurrencySymbols == {"₹", "$"}
HasCurrencySymbol(text) == \E c \in CurrencySymbols : Contains(text, c)

C9_PrefixOnlyWithoutSymbol ==
    \A w \in Worker :
        Rendered(w) =>
            IF HasCurrencySymbol(Val(price_text[w]))
            THEN Val(response[w]).price = Val(price_text[w])
            ELSE Val(response[w]).price = "₹" \o Val(price_text[w])

\* C3 as stated: whenever a request has persisted its own observation, the
\* history that same request reads includes it, under any interleaving.
C3_OwnRowInHistory ==
    \A w \in Worker :
        (row[w] # None /\ history[w] # None) =>
            Val(Val(row[w]).id) \in Ids(Val(history[w]))

\* The other rows of the URL of row own whose date is not before its date.
NotOlder(table, own) ==
    {i \in 1..Len(table) : /\ i # own
                           /\ table[i].url = table[own].url
                           /\ table[i].date >= table[own].date}

\* C3, amended: the history a request reads includes the row the request has
\* persisted, provided the table then holds fewer than 7 other rows of the
\* URL with an equal or later date.
C3_OwnRowInHistoryUnlessCrowdedOut ==
    [][\A w \in Worker :
          (pc[w] = "history" /\ pc'[w] = "render" /\ row[w] # None) =>
              LET own == Val(Val(row[w]).id)
              IN  Cardinality(NotOlder(store, own)) < 7
                      => own \in Ids(Val(history'[w]))]_vars

\* A request's own row is the oldest of a full window: six later rows of the
\* URL were inserted between its write and its read.
C3_Witness ==
    \E w \in Worker :
        /\ Rendered(w) /\ row[w] # None
        /\ Len(Val(history[w])) = 7
        /\ Val(history[w])[1].id = Val(Val(row[w]).id)

\* C2: for a table whose rows of the URL have distinct dates, build_history
\* returns exactly the min(n, 7) rows of that URL with the latest dates,
\* oldest first, and price_data lists their prices in that order.
C2_LatestSevenOldestFirst ==
    (call.fn = "build_history" /\ call.results # <<>>) =>
        LET out == call.results[1]
            h == out.history
            mine == {i \in 1..Len(store) : store[i].url = call.args[1]}
        IN  (\A i, j \in mine : i # j => store[i].date # store[j].date) =>
                /\ Len(h) = Min(Cardinality(mine), 7)
                /\ \A i \in 1..Len(h) : h[i].id \in mine /\ h[i] = store[h[i].id]
                /\ \A i \in 1..(Len(h) - 1) : h[i].date < h[i + 1].date
                /\ \A m \in mine \ Ids(h) : \A i \in 1..Len(h) : store[m].date < h[i].date
                /\ Len(out.price_data) = Len(h)
                /\ \A i \in 1..Len(h) : out.price_data[i] = h[i].price

\* Ten rows of one URL, dates rising, prices 10..19: the history is 13..19.
C2_Witness ==
    /\ call.fn = "build_history" /\ call.results # <<>>
    /\ Len(store) = 10
    /\ \A i \in 1..10 : store[i].url = call.args[1] /\ store[i].price.num = 9 + i
    /\ \A i \in 1..9 : store[i].date < store[i + 1].date
    /\ call.results[1].price_data = [i \in 1..7 |-> [num |-> 12 + i, exp |-> 0]]

C6_ClassifyByHostname ==
    (call.fn = "extract_product_details" /\ call.results # <<>>) =>
        LET hostname == Hostname(call.args[1])
            flipkart == Contains(hostname, "flipkart.com")
            amazon == Contains(hostname, "amazon.") \/ Contains(hostname, "amzn.")
            out == call.results[1]
        IN  /\ flipkart => out = extract_flipkart_details(call.args[2])
            /\ (~flipkart /\ amazon) => out = extract_amazon_details(call.args[2])
            /\ (~flipkart /\ ~amazon) =>
                   out = <<"Unsupported website", "0", PLACEHOLDER_IMAGE>>

\* A hostname with both "flipkart.com" and "amazon." got the Flipkart
\* extraction of a page on which the Amazon extraction differs.
C6_Witness ==
    /\ call.fn = "extract_product_details" /\ call.results # <<>>
    /\ Contains(Hostname(call.args[1]), "flipkart.com")
    /\ Contains(Hostname(call.args[1]), "amazon.")
    /\ call.results[1] = extract_flipkart_details(call.args[2])
    /\ call.results[1] # extract_amazon_details(call.args[2])
    /\ call.results[1][1] # "Not found"

\* C7: parse_price returns, never raises, and its value is not negative; with
\* the commas and every character that is neither a digit nor a point
\* deleted, it is the value of the remainder when that is a decimal (one
\* point at most, one digit at least) and 0.0 otherwise.
C7_ParsePriceTotal ==
    (call.fn = "parse_price" /\ call.results # <<>>) =>
        LET out == call.results[1]
            rest == Keep(call.args[1], DigitsAndPoint)
            point == Find(rest, ".")
            decimals == IF point = 0 THEN 0 ELSE Len(rest) - point
            wellformed == Len(Keep(rest, {"."})) <= 1 /\ Keep(rest, Digits) # ""
        IN  /\ out.exc = ""
            /\ out.val.num >= 0
            /\ wellformed =>
                   out.val.num * Pow10(decimals)
                       = DigitsValue(Keep(rest, Digits), 0) * Pow10(out.val.exp)
            /\ ~wellformed => out.val = Zero

\* A text with two points, whose remainder is unparsable, gave 0.0.
C7_Witness ==
    /\ call.fn = "parse_price" /\ call.results # <<>>
    /\ Len(Keep(call.args[1], {"."})) = 2
    /\ Keep(call.args[1], Digits) # ""
    /\ call.results[1] = [exc |-> "", val |-> Zero]

\* C8 as stated.  A locator is a selector with the attributes read from its
\* node, in order of preference; it fails when the node is missing or has
\* none of them, and the chain then goes on to the next locator.
LocatorValue(page, selector, attrs) ==
    LET tag == Select(page, selector)
        present == {i \in 1..Len(attrs) :
                       \/ attrs[i] = "text"
                       \/ attrs[i] = "content" /\ Val(tag).content # None
                       \/ attrs[i] = "src" /\ Val(tag).src # None}
        first == attrs[CHOOSE i \in present : \A j \in present : i <= j]
    IN  IF tag = None \/ present = {} THEN None
        ELSE CASE first = "text" -> Some(Strip(Val(tag).text))
               [] first = "content" -> Some(Val(Val(tag).content))
               [] first = "src" -> Some(Val(Val(tag).src))

RECURSIVE Chain(_, _, _, _)
Chain(page, selectors, attrs, default) ==
    IF selectors = <<>> THEN default
    ELSE LET v == LocatorValue(page, Head(selectors), attrs)
         IN  IF v # None THEN Val(v) ELSE Chain(page, Tail(selectors), attrs, default)

C8_ChainFallsThrough ==
    (call.fn = "extract_product_details" /\ call.results # <<>>) =>
        LET hostname == Hostname(call.args[1])
            page == call.args[2]
            out == call.results[1]
        IN  /\ Contains(hostname, "flipkart.com") =>
                /\ out[1] = Chain(page, <<"meta og:title", "span.B_NuCI">>,
                                  <<"content", "text">>, "Not found")
                /\ out[2] = Chain(page, <<"div._30jeq3._16Jk6d", "div.Nx9bqj.CxhGGd",
                                          "div._25b18c ._30jeq3">>, <<"text">>, "0")
                /\ out[3] = Chain(page, <<"meta og:image", "img._396cs4._2amPTt._3qGmMb">>,
                                  <<"content", "src">>, PLACEHOLDER_IMAGE)
            /\ (~Contains(hostname, "flipkart.com")
                  /\ (Contains(hostname, "amazon.") \/ Contains(hostname, "amzn."))) =>
                /\ out[1] = Chain(page, <<"#productTitle", "span#title">>, <<"text">>, "Not found")
                /\ out[2] = Chain(page, <<"#corePriceDisplay_desktop_feature_div span.a-offscreen",
                                          ".a-price .a-offscreen", "span.a-price-whole">>,
                                  <<"text">>, "0")
                /\ out[3] = Chain(page, <<"#landingImage", "meta og:image">>,
                                  <<"src", "content">>, PLACEHOLDER_IMAGE)

====
